---- MODULE Spec2Model ----
(***************************************************************************)
(* Model of src/app.py: the playlist-to-recipe extraction pipeline         *)
(* (start_processing, process_videos, process_single_video,                *)
(* analyze_with_gemini, the recipes table) and the ingredient matcher      *)
(* (recommend_recipe).                                                     *)
(*                                                                         *)
(* Text is modelled as a sequence of one-character strings, so that the    *)
(* regular-expression clean-up, str.split/str.strip and SQLite's LIKE are  *)
(* computed character by character as the code computes them.              *)
(***************************************************************************)
EXTENDS Integers, Sequences, FiniteSets, TLC

VARIABLES
    store,              \* the recipes table: rows in rowid (scan) order
    processing_status,  \* the process-wide status map, keyed by session id
    pc,                 \* per run: position of its worker
    video_ids,          \* per run: the capped item list of start_processing
    playlist,           \* per run: what get_playlist_items returned (history)
    idx,                \* per run: the enumerate() index of the current item
    video_info,         \* per run: metadata of the current item
    data_dict,          \* per run: the populated source slots of the current item
    response,           \* per run: the inference service's answer for the current item (history)
    analysis,           \* per run: (dish_name, ingredients, sources) of the current item
    results,            \* per run: the worker's results list
    calls,              \* per run: external calls made so far (history)
    existed,            \* per run: per item, whether its row was in the store when the item was started (history)
    faults,             \* number of failures the environment has injected so far
    query,              \* recommend_recipe: the form input of the request
    reply,              \* recommend_recipe: the outcome of the request
    lock,               \* status_lock: 0 when free, else the run whose worker holds it
    poll                \* get_status: the position and locals of the polling request

vars == <<store, processing_status, pc, video_ids, playlist, idx, video_info,
          data_dict, response, analysis, results, calls, existed, faults, query,
          reply, lock, poll>>

\* the lock and the polling request
pollVars == <<lock, poll>>

\* everything but the table, the request and its reply
runVars == <<processing_status, pc, video_ids, playlist, idx, video_info,
             data_dict, response, analysis, results, calls, existed, faults,
             lock, poll>>

(***************************************************************************)
(* Bounds of the model and constants of the program.                       *)
(***************************************************************************)
FREE_TIER_LIMIT == 10

NumRuns == 2

MaxFaults == 2

MaxExtra == 1

MaxRows == 2

MaxQueryLen == 2

MaxTextLen == 4

MaxListLen == 2

BigRecipe == 35

Runs == 1..NumRuns

VideoIds == {"v1", "v2"}

Min(a, b) == IF a <= b THEN a ELSE b

(***************************************************************************)
(* Text helpers.                                                           *)
(***************************************************************************)
IsSpace(c) == c = " "

\* str.join: the elements of parts with sep between them
RECURSIVE Join(_, _)
Join(parts, sep) ==
    IF parts = <<>> THEN <<>>
    ELSE IF Len(parts) = 1 THEN parts[1]
    ELSE parts[1] \o sep \o Join(Tail(parts), sep)

\* the characters of s at the positions in keep, in order
Pick(s, keep) ==
    [k \in 1..Cardinality(keep) |->
        s[CHOOSE i \in keep : Cardinality({j \in keep : j < i}) = k - 1]]

\* s without its leading and trailing characters that are in drop
Trim(s, drop) ==
    LET kept == {i \in 1..Len(s) : s[i] \notin drop}
    IN  IF kept = {} THEN <<>>
        ELSE SubSeq(s, CHOOSE i \in kept : \A j \in kept : i <= j,
                       CHOOSE i \in kept : \A j \in kept : j <= i)

\* str.split(','): the segments between the commas; never empty
Split(s) ==
    LET commas == {i \in 1..Len(s) : s[i] = ","}
        cut == [k \in 0..(Cardinality(commas) + 1) |->
                   IF k = 0 THEN 0
                   ELSE IF k = Cardinality(commas) + 1 THEN Len(s) + 1
                   ELSE CHOOSE i \in commas : Cardinality({j \in commas : j < i}) = k - 1]
    IN  [k \in 1..(Cardinality(commas) + 1) |-> SubSeq(s, cut[k - 1] + 1, cut[k] - 1)]

\* str.strip(): leading and trailing whitespace removed
Strip(s) == Trim(s, {" "})

\* re.sub(r'\s+', '', s)
RemoveWhitespace(s) == SelectSeq(s, LAMBDA c : ~IsSpace(c))

\* re.sub(r',+', ',', s): of every run of commas the first is kept
CollapseCommas(s) ==
    Pick(s, {i \in 1..Len(s) : ~(s[i] = "," /\ i > 1 /\ s[i - 1] = ",")})

\* s.strip(',')
StripCommas(s) == Trim(s, {","})

(***************************************************************************)
(* Values of the inference service's JSON answer, tagged by their type.    *)
(***************************************************************************)
JStr(s) == [t |-> "str", s |-> s]

JNull == [t |-> "null"]

JNum == [t |-> "num"]

JList(l) == [t |-> "list", l |-> l]

\* a JSON object; keys is the set of the fields it has
JObj(keys, dish, ing) ==
    [t |-> "obj", keys |-> keys, dish_name |-> dish, ingredients |-> ing]

\* the answer of model.generate_content followed by json.loads
RespRaise == [kind |-> "raise"]

RespMalformed == [kind |-> "malformed"]

RespJson(j) == [kind |-> "json", data |-> j]

Title(v) == <<"T", v>>

Url(v) == <<"u", v>>

(***************************************************************************)
(* analyze_with_gemini                                                     *)
(***************************************************************************)
SlotOrder == <<"transcript", "description", "comments">>

\* the labels the code appends to sources (the Korean words for captions,
\* description and comments)
SourceLabel(k) ==
    CASE k = "transcript" -> "captions"
      [] k = "description" -> "description"
      [] k = "comments" -> "comments"

\* the slots of data_dict that hold a non-empty text, in the order the code tests them
available_data(dd) == SelectSeq(SlotOrder, LAMBDA k : k \in dd)

\* a variant of sources_of that tests the slots with if / elif / elif
sources_of_elif(dd) ==
    LET av == available_data(dd)
    IN  IF av = <<>> THEN <<>> ELSE <<SourceLabel(av[1])>>

sources_of(dd) ==
    LET av == available_data(dd) IN [i \in 1..Len(av) |-> SourceLabel(av[i])]

\* a variant of the clean-up that collapses the commas before it removes the
\* whitespace
NormalizeIngredients_reordered(s) ==
    StripCommas(RemoveWhitespace(CollapseCommas(s)))

\* the three clean-up steps applied to the ingredients text
NormalizeIngredients(s) == StripCommas(CollapseCommas(RemoveWhitespace(s)))

\* a variant of Fallback that still reports the captions as a source
Fallback_sources(title) ==
    [dish_name |-> JStr(title), ingredients |-> <<>>, sources |-> <<"captions">>]

\* what every failure path returns: (title, "", [])
Fallback(title) ==
    [dish_name |-> JStr(title), ingredients |-> <<>>, sources |-> <<>>]

\* a variant of Unwrap that uses a list answer as it is
Unwrap_none(j) == j

\* if isinstance(data, list): data = data[0], for a non-empty list
Unwrap(j) == IF j.t = "list" THEN j.l[1] ELSE j

analyze_with_gemini(dd, title, resp) ==
    IF available_data(dd) = <<>> THEN Fallback(title)
    ELSE IF resp.kind # "json" THEN Fallback(title)
    ELSE IF resp.data.t = "list" /\ resp.data.l = <<>> THEN Fallback(title)
    ELSE LET data == Unwrap(resp.data)
         IN  IF data.t # "obj" THEN Fallback(title)
             ELSE LET dish == IF "dish_name" \in data.keys
                              THEN data.dish_name ELSE JStr(title)
                      ing0 == IF "ingredients" \in data.keys
                              THEN data.ingredients ELSE JStr(<<>>)
                      joinable == ing0.t = "list" /\
                                  \A i \in 1..Len(ing0.l) : ing0.l[i].t = "str"
                      text == IF ing0.t = "list"
                              THEN Join([i \in 1..Len(ing0.l) |-> ing0.l[i].s], <<",">>)
                              ELSE ing0.s
                  IN  IF (ing0.t = "list" /\ ~joinable) \/ ing0.t \notin {"list", "str"}
                      THEN Fallback(title)
                      ELSE [dish_name |-> dish,
                            ingredients |-> NormalizeIngredients(text),
                            sources |-> sources_of(dd)]

\* a variant of InferenceCalled that sends the prompt whatever was collected
InferenceCalled_always(dd) == TRUE

\* whether analyze_with_gemini sends the prompt to the service
InferenceCalled(dd) == available_data(dd) # <<>>

(***************************************************************************)
(* The recipes table and the status map.                                   *)
(***************************************************************************)
\* a variant of check_if_video_exists that tests the count with > 1
check_if_video_exists_gt1(st, v) ==
    Cardinality({i \in 1..Len(st) : st[i].video_id = v}) > 1

\* SELECT COUNT(*) FROM recipes WHERE video_id = ? ... > 0
check_if_video_exists(st, v) == \E i \in 1..Len(st) : st[i].video_id = v

\* a variant of the table without the UNIQUE constraint
UniqueViolation_none(st, v) == FALSE

\* video_id TEXT UNIQUE NOT NULL: an INSERT of a present video_id is rejected
UniqueViolation(st, v) == \E i \in 1..Len(st) : st[i].video_id = v

\* ','.join(sources) if sources else the sentinel
SourcesStr(srcs) ==
    IF srcs # <<>> THEN Join([i \in 1..Len(srcs) |-> <<srcs[i]>>], <<",">>)
    ELSE <<"none">>

\* values sqlite3 cannot bind as a parameter raise on execute
Bindable(j) == j.t \in {"str", "null"}

\* a variant of Percentage that rounds to the nearest integer
Percentage_rounded(current, total) ==
    IF total > 0 THEN (2 * current * 100 + total) \div (2 * total) ELSE 0

\* int((current / total) * 100) if total > 0 else 0.  The quotient is a
\* double; for the totals the cap allows (at most FREE_TIER_LIMIT) the
\* truncated product is the integer quotient of 100 * current by total.
Percentage(current, total) ==
    IF total > 0 THEN (current * 100) \div total ELSE 0

\* a variant of update_status that rebuilds the map with the one entry
update_status_clear(ps, sid, current, total, status_text, video_title) ==
    [s \in {sid} |->
        [current |-> current, total |-> total,
         percentage |-> Percentage(current, total),
         status |-> status_text, video_title |-> video_title,
         timestamp |-> IF sid \in DOMAIN ps THEN ps[sid].timestamp + 1 ELSE 1,
         completed |-> <<>>, success_count |-> <<>>]]

\* the session's entry is replaced by a new dict.  timestamp is time.time():
\* here the number of entries the session has had, so that two entries of a
\* session with the same timestamp are the same dict.
update_status(ps, sid, current, total, status_text, video_title) ==
    [s \in DOMAIN ps \cup {sid} |->
        IF s = sid
        THEN [current |-> current, total |-> total,
              percentage |-> Percentage(current, total),
              status |-> status_text, video_title |-> video_title,
              timestamp |-> IF sid \in DOMAIN ps THEN ps[sid].timestamp + 1 ELSE 1,
              completed |-> <<>>, success_count |-> <<>>]
        ELSE ps[s]]

\* a variant of the cap that tests >= and keeps one id more
CapPlaylist_plus1(pl) ==
    IF Len(pl) >= FREE_TIER_LIMIT THEN SubSeq(pl, 1, Min(Len(pl), FREE_TIER_LIMIT + 1))
    ELSE pl

\* the list the worker iterates: the first FREE_TIER_LIMIT ids of the playlist
CapPlaylist(pl) ==
    IF Len(pl) > FREE_TIER_LIMIT THEN SubSeq(pl, 1, FREE_TIER_LIMIT) ELSE pl

(***************************************************************************)
(* What the environment may answer in the pipeline.  An environment E      *)
(* names the playlists the resolver may return, the descriptions a video   *)
(* may have, whether captions and comments may be found, and the answers   *)
(* of the inference service.                                               *)
(***************************************************************************)
\* the playlist v1, v2, v1, ... of length n
Cyclic(n) == [i \in 1..n |-> IF i % 2 = 1 THEN "v1" ELSE "v2"]

ValidObject ==
    RespJson(JObj({"dish_name", "ingredients"}, JStr(<<"X">>),
                  JStr(<<"a", ",", " ", "b">>)))

ArrayWrapped ==
    RespJson(JList(<<JObj({"dish_name", "ingredients"}, JStr(<<"X">>),
                          JList(<<JStr(<<"a">>), JStr(<<" ", "b">>)>>))>>))

EmptyList == RespJson(JList(<<>>))

\* {"dish_name": null, "ingredients": "a"}
NullDish == RespJson(JObj({"dish_name", "ingredients"}, JNull, JStr(<<"a">>)))

\* {"dish_name": "X", "ingredients": null}
NullIngredients == RespJson(JObj({"dish_name", "ingredients"}, JStr(<<"X">>), JNull))

\* overlapping runs over short playlists
EnvConcurrent ==
    [playlists |-> {<<"v1">>, <<"v2", "v1">>, <<"v1", "v1">>},
     descriptions |-> {<<"d">>},
     captions |-> {FALSE},
     comments |-> {FALSE},
     responses |-> {ValidObject}]

\* one run over playlists around the cap
EnvBatch ==
    [playlists |-> {Cyclic(n) : n \in 0..2} \cup {<<"v1", "v1">>}
                   \cup {Cyclic(n) : n \in (FREE_TIER_LIMIT - 1)..(FREE_TIER_LIMIT + MaxExtra)},
     descriptions |-> {<<"d">>},
     captions |-> {FALSE},
     comments |-> {FALSE},
     responses |-> {ValidObject}]

\* one run over one or two items, with every combination of sources and answers
EnvItem ==
    [playlists |-> {<<"v1">>, <<"v1", "v2">>, <<"v1", "v1">>},
     descriptions |-> {<<>>, <<"d">>},
     captions |-> BOOLEAN,
     comments |-> BOOLEAN,
     responses |-> {ValidObject, ArrayWrapped, EmptyList, NullDish, NullIngredients,
                    RespMalformed, RespRaise}]

NoInfo == [title |-> <<>>, description |-> <<>>, url |-> <<>>]

NoAnalysis == [dish_name |-> JNull, ingredients |-> <<>>, sources |-> <<>>]

Outcome(status, v) == [status |-> status, video_id |-> v]

\* the item the worker of run r is processing
CurrentId(r) == video_ids[r][idx[r]]

Total(r) == Len(video_ids[r])

(***************************************************************************)
(* Initial state: an empty table, an empty status map, no run started.     *)
(***************************************************************************)
NoReply == [outcome |-> "none", queried |-> FALSE, recipes |-> <<>>]

\* no status request yet
NoPoll == [pc |-> "idle", session_id |-> 0, status |-> <<>>, body |-> <<>>,
           writer |-> 0]

Init ==
    /\ store = <<>>
    /\ processing_status = <<>>
    /\ pc = [r \in Runs |-> "idle"]
    /\ video_ids = [r \in Runs |-> <<>>]
    /\ playlist = [r \in Runs |-> <<>>]
    /\ idx = [r \in Runs |-> 0]
    /\ video_info = [r \in Runs |-> NoInfo]
    /\ data_dict = [r \in Runs |-> {}]
    /\ response = [r \in Runs |-> RespRaise]
    /\ analysis = [r \in Runs |-> NoAnalysis]
    /\ results = [r \in Runs |-> <<>>]
    /\ calls = [r \in Runs |-> {}]
    /\ existed = [r \in Runs |-> <<>>]
    /\ faults = 0
    /\ query = <<>>
    /\ reply = NoReply
    /\ lock = 0
    /\ poll = NoPoll

(***************************************************************************)
(* start_processing: the request handler that starts the worker of run r.  *)
(***************************************************************************)
StartProcessing(r, E) ==
    /\ pc[r] = "idle"
    /\ lock = 0
    /\ \E pl \in E.playlists :
        /\ playlist' = [playlist EXCEPT ![r] = pl]
        /\ video_ids' = [video_ids EXCEPT ![r] = CapPlaylist(pl)]
        /\ processing_status' =
               update_status(processing_status, r, 0, Len(CapPlaylist(pl)),
                             "preparing", <<>>)
    /\ pc' = [pc EXCEPT ![r] = "loop"]
    /\ UNCHANGED <<store, idx, video_info, data_dict, response, analysis, results, calls,
                   existed, faults, query, reply,
                   lock, poll>>

(***************************************************************************)
(* update_status takes status_lock for its write: the steps that call it   *)
(* wait until the lock is free (lock = 0).                                 *)
(*                                                                         *)
(* process_videos: the for loop takes the next item and calls              *)
(* process_single_video, which starts with the existence check.  The check *)
(* is outside the try block: when the store fails, the exception leaves    *)
(* process_single_video and process_videos, and the thread ends.           *)
(***************************************************************************)
CheckExists(r) ==
    /\ pc[r] = "loop"
    /\ idx[r] < Total(r)
    /\ LET k == idx[r] + 1
           v == video_ids[r][k]
       IN  /\ idx' = [idx EXCEPT ![r] = k]
           /\ calls' = [calls EXCEPT ![r] = @ \cup {<<k, "exists">>}]
           /\ existed' = [existed EXCEPT ![r] =
                  Append(@, \E i \in 1..Len(store) : store[i].video_id = v)]
           /\ \/ /\ faults < MaxFaults
                 /\ faults' = faults + 1
                 /\ pc' = [pc EXCEPT ![r] = "crashed"]
                 /\ UNCHANGED <<processing_status, results>>
              \/ /\ check_if_video_exists(store, v)
                 /\ lock = 0
                 /\ processing_status' =
                        update_status(processing_status, r, k, Total(r), "already", <<>>)
                 /\ results' = [results EXCEPT ![r] = Append(@, Outcome("skipped", v))]
                 /\ UNCHANGED <<pc, faults>>
              \/ /\ ~check_if_video_exists(store, v)
                 /\ lock = 0
                 /\ processing_status' =
                        update_status(processing_status, r, k, Total(r), "fetching_info", <<>>)
                 /\ pc' = [pc EXCEPT ![r] = "meta"]
                 /\ UNCHANGED <<results, faults>>
    /\ UNCHANGED <<store, video_ids, playlist, video_info, data_dict, response, analysis,
                   query, reply,
                   lock, poll>>

\* a variant of AfterMeta that goes on without metadata
AfterMeta_continue(present) == "transcript"

\* if not video_info: return the error outcome; else go on to the captions
AfterMeta(present) == IF present THEN "transcript" ELSE "loop"

\* get_video_info: absent (no such video, transport error) or title and description
GetVideoInfo(r, E) ==
    /\ pc[r] = "meta"
    /\ \/ /\ faults < MaxFaults
          /\ faults' = faults + 1
          /\ calls' = [calls EXCEPT ![r] =
                 @ \cup {<<idx[r], "meta">>, <<idx[r], "meta_absent">>}]
          /\ results' = [results EXCEPT ![r] = Append(@, Outcome("error", CurrentId(r)))]
          /\ pc' = [pc EXCEPT ![r] = AfterMeta(FALSE)]
          /\ UNCHANGED <<video_info, processing_status>>
       \/ \E desc \in E.descriptions :
          /\ lock = 0
          /\ calls' = [calls EXCEPT ![r] = @ \cup {<<idx[r], "meta">>}]
          /\ video_info' = [video_info EXCEPT ![r] =
                 [title |-> Title(CurrentId(r)), description |-> desc,
                  url |-> Url(CurrentId(r))]]
          /\ processing_status' =
                 update_status(processing_status, r, idx[r], Total(r),
                               "checking_captions", Title(CurrentId(r)))
          /\ pc' = [pc EXCEPT ![r] = AfterMeta(TRUE)]
          /\ UNCHANGED <<results, faults>>
    /\ UNCHANGED <<store, video_ids, playlist, idx, data_dict, response, analysis, existed,
                   query, reply,
                   lock, poll>>

\* get_video_transcript, then the description slot
GetTranscript(r, E) ==
    /\ pc[r] = "transcript"
    /\ lock = 0
    /\ calls' = [calls EXCEPT ![r] = @ \cup {<<idx[r], "captions">>}]
    /\ \E found \in E.captions :
          data_dict' = [data_dict EXCEPT ![r] =
              (IF found THEN {"transcript"} ELSE {})
              \cup (IF video_info[r].description # <<>> THEN {"description"} ELSE {})]
    /\ processing_status' =
           update_status(processing_status, r, idx[r], Total(r),
                         "collecting_comments", video_info[r].title)
    /\ pc' = [pc EXCEPT ![r] = "comments"]
    /\ UNCHANGED <<store, video_ids, playlist, idx, video_info, response, analysis, results,
                   existed, faults, query, reply,
                   lock, poll>>

\* get_video_comments
GetComments(r, E) ==
    /\ pc[r] = "comments"
    /\ lock = 0
    /\ calls' = [calls EXCEPT ![r] = @ \cup {<<idx[r], "comments">>}]
    /\ \E found \in E.comments :
          data_dict' = [data_dict EXCEPT ![r] =
              @ \cup (IF found THEN {"comments"} ELSE {})]
    /\ processing_status' =
           update_status(processing_status, r, idx[r], Total(r),
                         "analyzing", video_info[r].title)
    /\ pc' = [pc EXCEPT ![r] = "analyze"]
    /\ UNCHANGED <<store, video_ids, playlist, idx, video_info, response, analysis, results,
                   existed, faults, query, reply,
                   lock, poll>>

\* analyze_with_gemini on the collected slots
Analyze(r, E) ==
    /\ pc[r] = "analyze"
    /\ \E resp \in E.responses :
          /\ response' = [response EXCEPT ![r] = resp]
          /\ analysis' = [analysis EXCEPT ![r] =
                 analyze_with_gemini(data_dict[r], video_info[r].title, resp)]
    /\ calls' = [calls EXCEPT ![r] =
           @ \cup (IF InferenceCalled(data_dict[r]) THEN {<<idx[r], "inference">>} ELSE {})]
    /\ pc' = [pc EXCEPT ![r] = "insert"]
    /\ UNCHANGED <<store, processing_status, video_ids, playlist, idx, video_info,
                   data_dict, results, existed, faults, query, reply,
                   lock, poll>>

\* the row process_single_video inserts
NewRow(r) ==
    [video_id |-> CurrentId(r),
     title |-> video_info[r].title,
     description |-> video_info[r].description,
     ingredients |-> analysis[r].ingredients,
     dish_name |-> analysis[r].dish_name,
     url |-> video_info[r].url,
     data_sources |-> SourcesStr(analysis[r].sources)]

\* a variant of Insert that replaces the rows of the table
Insert_replace(st, row) == <<row>>

\* INSERT INTO recipes ... VALUES (...): the table gets one more row
Insert(st, row) == Append(st, row)

\* INSERT and commit; any exception is caught by process_single_video
InsertRecipe(r) ==
    /\ pc[r] = "insert"
    /\ lock = 0
    /\ calls' = [calls EXCEPT ![r] = @ \cup {<<idx[r], "insert">>}]
    /\ \/ /\ faults < MaxFaults
          /\ faults' = faults + 1
          /\ processing_status' =
                 update_status(processing_status, r, idx[r], Total(r), "error", <<>>)
          /\ results' = [results EXCEPT ![r] = Append(@, Outcome("error", CurrentId(r)))]
          /\ UNCHANGED store
       \/ /\ UniqueViolation(store, CurrentId(r)) \/ ~Bindable(analysis[r].dish_name)
          /\ processing_status' =
                 update_status(processing_status, r, idx[r], Total(r), "error", <<>>)
          /\ results' = [results EXCEPT ![r] = Append(@, Outcome("error", CurrentId(r)))]
          /\ UNCHANGED <<store, faults>>
       \/ /\ ~UniqueViolation(store, CurrentId(r))
          /\ Bindable(analysis[r].dish_name)
          /\ store' = Insert(store, NewRow(r))
          /\ processing_status' =
                 update_status(processing_status, r, idx[r], Total(r), "done",
                               video_info[r].title)
          /\ results' = [results EXCEPT ![r] = Append(@, Outcome("success", CurrentId(r)))]
          /\ UNCHANGED faults
    /\ pc' = [pc EXCEPT ![r] = "loop"]
    /\ video_info' = [video_info EXCEPT ![r] = NoInfo]
    /\ data_dict' = [data_dict EXCEPT ![r] = {}]
    /\ response' = [response EXCEPT ![r] = RespRaise]
    /\ analysis' = [analysis EXCEPT ![r] = NoAnalysis]
    /\ UNCHANGED <<video_ids, playlist, idx, existed, query, reply,
                   lock, poll>>

\* number of successes in the results list
RECURSIVE CountSuccess(_)
CountSuccess(rs) ==
    IF rs = <<>> THEN 0
    ELSE (IF rs[1].status = "success" THEN 1 ELSE 0) + CountSuccess(Tail(rs))

\* process_videos after the loop: the completion summary
FinishRun(r) ==
    /\ pc[r] = "loop"
    /\ idx[r] = Total(r)
    /\ lock = 0
    /\ processing_status' = [processing_status EXCEPT ![r] =
           [@ EXCEPT !.completed = <<TRUE>>,
                     !.success_count = <<CountSuccess(results[r])>>,
                     !.total = Total(r)]]
    /\ pc' = [pc EXCEPT ![r] = "done"]
    /\ UNCHANGED <<store, video_ids, playlist, idx, video_info, data_dict, response, analysis,
                   results, calls, existed, faults, query, reply,
                   lock, poll>>

(***************************************************************************)
(* recommend_recipe                                                        *)
(***************************************************************************)
RangeOf(q) == {q[i] : i \in 1..Len(q)}

\* set(i.strip() for i in text.split(',') if i.strip())
ParseTokens(text) == {Strip(seg) : seg \in RangeOf(Split(text))} \ {<<>>}

\* SQLite compares ASCII letters in LIKE without regard to case
Fold(c) ==
    CASE c = "A" -> "a"
      [] c = "B" -> "b"
      [] c = "C" -> "c"
      [] OTHER -> c

\* SQLite's str LIKE pat: % matches any run of characters, _ any one
\* character.  Consumed(pat, str) is the set of lengths of the prefixes of
\* str that pat matches.
RECURSIVE Consumed(_, _)
Consumed(pat, str) ==
    IF pat = <<>> THEN {0}
    ELSE LET before == Consumed(SubSeq(pat, 1, Len(pat) - 1), str)
             c == pat[Len(pat)]
         IN  IF c = "%"
             THEN {j \in 0..Len(str) : \E i \in before : i <= j}
             ELSE {i + 1 : i \in {j \in before : /\ j < Len(str)
                                                 /\ \/ c = "_"
                                                    \/ Fold(c) = Fold(str[j + 1])}}

LikeMatch(pat, str) == Len(str) \in Consumed(pat, str)

\* WHERE ingredients LIKE '%tok%' OR ... over the user's tokens
RowSelected(row, user_ingredients) ==
    \E tok \in user_ingredients : LikeMatch(<<"%">> \o tok \o <<"%">>, row.ingredients)

\* f"{match_rate:.1f}" of match_rate = num / den * 100, in tenths, ties to even
FormatRate(num, den) ==
    IF den = 0 THEN 0
    ELSE LET q == (1000 * num) \div den
             rem == (1000 * num) % den
         IN  IF 2 * rem > den THEN q + 1
             ELSE IF 2 * rem = den THEN q + (q % 2)
             ELSE q

\* a variant of RecipeOf that takes the difference the other way round
RecipeOf_swapped(row, user_ingredients) ==
    LET recipe_ings == ParseTokens(row.ingredients)
        matched == user_ingredients \cap recipe_ings
        missing == user_ingredients \ recipe_ings
    IN  [title |-> row.title,
         url |-> row.url,
         dish_name |-> row.dish_name,
         rate_num |-> IF recipe_ings # {} THEN Cardinality(matched) ELSE 0,
         rate_den |-> IF recipe_ings # {} THEN Cardinality(recipe_ings) ELSE 1,
         match_rate |-> FormatRate(Cardinality(matched), Cardinality(recipe_ings)),
         matched |-> matched,
         missing |-> missing,
         all_ingredients |-> recipe_ings,
         sources |-> row.data_sources]

\* the dict appended to recipes for one row of the result.  rate_num / rate_den
\* is the local match_rate / 100 before it is formatted.
RecipeOf(row, user_ingredients) ==
    LET recipe_ings == ParseTokens(row.ingredients)
        matched == user_ingredients \cap recipe_ings
        missing == recipe_ings \ user_ingredients
    IN  [title |-> row.title,
         url |-> row.url,
         dish_name |-> row.dish_name,
         rate_num |-> IF recipe_ings # {} THEN Cardinality(matched) ELSE 0,
         rate_den |-> IF recipe_ings # {} THEN Cardinality(recipe_ings) ELSE 1,
         match_rate |-> FormatRate(Cardinality(matched), Cardinality(recipe_ings)),
         matched |-> matched,
         missing |-> missing,
         all_ingredients |-> recipe_ings,
         sources |-> row.data_sources]

\* a variant of the sort that is not stable: x goes before the recipes whose
\* key equals its own
InsertByRate_unstable(sorted, x) ==
    LET n == Cardinality({i \in 1..Len(sorted) : sorted[i].match_rate > x.match_rate})
    IN  SubSeq(sorted, 1, n) \o <<x>> \o SubSeq(sorted, n + 1, Len(sorted))

\* x goes behind the recipes whose key is at least its own
InsertByRate(sorted, x) ==
    LET n == Cardinality({i \in 1..Len(sorted) : sorted[i].match_rate >= x.match_rate})
    IN  SubSeq(sorted, 1, n) \o <<x>> \o SubSeq(sorted, n + 1, Len(sorted))

\* recipes.sort(key=lambda x: float(x['match_rate']), reverse=True): stable
RECURSIVE SortFrom(_, _)
SortFrom(sorted, rest) ==
    IF rest = <<>> THEN sorted
    ELSE SortFrom(InsertByRate(sorted, rest[1]), Tail(rest))

SortByRate(recipes) == SortFrom(<<>>, recipes)

\* the outcome of POST /recommend on table st with form input text:
\* queried tells whether cursor.execute was called
recommend_recipe(st, text) ==
    IF text = <<>>
    THEN [outcome |-> "enter_ingredients", queried |-> FALSE, recipes |-> <<>>]
    ELSE LET user_ingredients == ParseTokens(text)
             found == SelectSeq(st, LAMBDA row : RowSelected(row, user_ingredients))
         IN  IF user_ingredients = {}
             THEN [outcome |-> "server_error", queried |-> TRUE, recipes |-> <<>>]
             ELSE IF found = <<>>
             THEN [outcome |-> "no_matches", queried |-> TRUE, recipes |-> <<>>]
             ELSE [outcome |-> "recipes", queried |-> TRUE,
                   recipes |-> SortByRate([i \in 1..Len(found) |->
                                               RecipeOf(found[i], user_ingredients)])]

\* one step of run r in environment E, up to the end of its loop
ItemStep(r, E) ==
    \/ StartProcessing(r, E)
    \/ CheckExists(r)
    \/ GetVideoInfo(r, E)
    \/ GetTranscript(r, E)
    \/ GetComments(r, E)
    \/ Analyze(r, E)
    \/ InsertRecipe(r)

\* one step of run r in environment E; the completion summary is written
\* in one step, which is what a reader that takes status_lock sees
RunStep(r, E) ==
    \/ ItemStep(r, E)
    \/ FinishRun(r)

\* overlapping runs
Next == \E r \in Runs : RunStep(r, EnvConcurrent)

Spec == Init /\ [][Next]_vars

\* one run over playlists around the cap
NextBatch == RunStep(1, EnvBatch)

SpecBatch == Init /\ [][NextBatch]_vars

\* one run with every combination of sources and answers
NextItem == RunStep(1, EnvItem)

SpecItem == Init /\ [][NextItem]_vars

(***************************************************************************)
(* The matcher on a populated table.  The rows are rows the pipeline       *)
(* inserts: distinct video ids, ingredients as analyze_with_gemini         *)
(* returns them.                                                           *)
(***************************************************************************)
\* all texts of at most n characters of alphabet
TextsUpTo(alphabet, n) == UNION {[1..k -> alphabet] : k \in 0..n}

RowIds == <<"v1", "v2", "v3", "v4">>

\* the row process_single_video inserts for video v when the description is
\* the only source and the service answers {"ingredients": raw}
RowFor(v, raw) ==
    LET a == analyze_with_gemini({"description"}, Title(v),
                                 RespJson(JObj({"ingredients"}, JNull, JStr(raw))))
    IN  [video_id |-> v, title |-> Title(v), description |-> <<"d">>,
         ingredients |-> a.ingredients, dish_name |-> a.dish_name,
         url |-> Url(v), data_sources |-> SourcesStr(a.sources)]

RawIngredientSamples ==
    { <<>>,
      <<"a">>,
      <<"a", ",", "b">>,
      <<"a", ",", " ", "b", ",", "c">>,
      <<"a", "b">>,
      <<"c", ",", ",", "a">> }

\* the k-th ingredient of a long recipe: "a" first, then b followed by the
\* binary digits of k written with b and c
RECURSIVE Digits(_, _)
Digits(k, width) ==
    IF width = 0 THEN <<>>
    ELSE Digits(k \div 2, width - 1) \o <<IF k % 2 = 0 THEN "b" ELSE "c">>

LongToken(k) == IF k = 1 THEN <<"a">> ELSE <<"b">> \o Digits(k, 6)

LongIngredients(n) == Join([k \in 1..n |-> LongToken(k)], <<",">>)

\* two long recipes, the longer one scanned first
LongStore ==
    <<RowFor("v1", LongIngredients(BigRecipe)),
      RowFor("v2", LongIngredients(BigRecipe - 1))>>

StoreSamples ==
    {[i \in 1..Len(raws) |-> RowFor(RowIds[i], raws[i])] :
        raws \in TextsUpTo(RawIngredientSamples, MaxRows)}
    \cup {LongStore}

QueryChars == {"a", "b", "A", ",", " ", "%", "_"}

QueryInputs ==
    TextsUpTo(QueryChars, MaxQueryLen)
    \cup { <<"a", ",", "b">>,
           <<"a", ",", " ", "b">>,
           <<",", ",", " ", ",">>,
           <<"a", ",", "%">>,
           <<"c", ",", "a", ",", "b">> }

InitRecommend ==
    /\ store \in StoreSamples
    /\ processing_status = <<>>
    /\ pc = [r \in Runs |-> "idle"]
    /\ video_ids = [r \in Runs |-> <<>>]
    /\ playlist = [r \in Runs |-> <<>>]
    /\ idx = [r \in Runs |-> 0]
    /\ video_info = [r \in Runs |-> NoInfo]
    /\ data_dict = [r \in Runs |-> {}]
    /\ response = [r \in Runs |-> RespRaise]
    /\ analysis = [r \in Runs |-> NoAnalysis]
    /\ results = [r \in Runs |-> <<>>]
    /\ calls = [r \in Runs |-> {}]
    /\ existed = [r \in Runs |-> <<>>]
    /\ faults = 0
    /\ query = <<>>
    /\ reply = NoReply
    /\ lock = 0
    /\ poll = NoPoll

\* POST /recommend with a form input of inputs.  The handler keeps nothing
\* between requests, so one request per behaviour covers them all.
Request(inputs) ==
    /\ reply = NoReply
    /\ \E text \in inputs :
        /\ query' = text
        /\ reply' = recommend_recipe(store, text)
    /\ UNCHANGED <<store, runVars>>

Recommend == Request(QueryInputs)

SpecRecommend == InitRecommend /\ [][Recommend]_vars

(***************************************************************************)
(* analyze_with_gemini as a function of the collected slots and of the     *)
(* service's answer.                                                       *)
(***************************************************************************)
TextChars == {"a", "b", ",", " "}

\* the ingredients values of the answers: texts, and lists of short texts
IngredientValues ==
    {JStr(s) : s \in TextsUpTo(TextChars, MaxTextLen)}
    \cup {JStr(<<"a", ",", " ", "b", " ", ",", ",", " ", "a">>),
          JStr(<<"a", ",", " ", ",", "b">>),
          JList(<<JStr(<<"a">>), JStr(<<" ", "b", " ">>), JStr(<<"a">>)>>)}
    \cup {JList([i \in 1..Len(l) |-> JStr(l[i])]) :
             l \in TextsUpTo(TextsUpTo(TextChars, 1)
                             \cup {<<" ", "b", " ">>, <<"a", ",", ",">>}, MaxListLen)}

EnvAnalyze ==
    [playlists |-> {<<"v1">>},
     descriptions |-> {<<"d">>},
     captions |-> BOOLEAN,
     comments |-> BOOLEAN,
     responses |-> {RespJson(JObj({"dish_name", "ingredients"}, JStr(<<"X">>), ing)) :
                       ing \in IngredientValues}]

\* the worker is about to call analyze_with_gemini for its first item
InitAnalyze ==
    /\ store = <<>>
    /\ \E dd \in (SUBSET {"transcript", "comments"}) \ {{}} :
          data_dict = [r \in Runs |-> IF r = 1 THEN dd ELSE {}]
    /\ pc = [r \in Runs |-> IF r = 1 THEN "analyze" ELSE "idle"]
    /\ video_ids = [r \in Runs |-> IF r = 1 THEN <<"v1">> ELSE <<>>]
    /\ playlist = [r \in Runs |-> IF r = 1 THEN <<"v1">> ELSE <<>>]
    /\ idx = [r \in Runs |-> IF r = 1 THEN 1 ELSE 0]
    /\ video_info = [r \in Runs |-> IF r = 1
                        THEN [title |-> Title("v1"), description |-> <<>>,
                              url |-> Url("v1")]
                        ELSE NoInfo]
    /\ processing_status =
           update_status(<<>>, 1, 1, 1, "analyzing", Title("v1"))
    /\ response = [r \in Runs |-> RespRaise]
    /\ analysis = [r \in Runs |-> NoAnalysis]
    /\ results = [r \in Runs |-> <<>>]
    /\ calls = [r \in Runs |->
                   IF r = 1 THEN {<<1, "exists">>, <<1, "meta">>, <<1, "captions">>,
                                  <<1, "comments">>}
                   ELSE {}]
    /\ existed = [r \in Runs |-> IF r = 1 THEN <<FALSE>> ELSE <<>>]
    /\ faults = 0
    /\ query = <<>>
    /\ reply = NoReply
    /\ lock = 0
    /\ poll = NoPoll

NextAnalyze == Analyze(1, EnvAnalyze)

SpecAnalyze == InitAnalyze /\ [][NextAnalyze]_vars

(***************************************************************************)
(* analyze_with_gemini against every shape of answer: objects with and     *)
(* without their fields, lists, scalars, and ingredients of every JSON     *)
(* type.                                                                   *)
(***************************************************************************)
DishShapes == {JStr(<<"X">>), JNull}

IngredientShapes ==
    {JStr(<<"a", ",", " ", "b">>),
     JStr(<<>>),
     JList(<<JStr(<<"a">>), JStr(<<"b">>)>>),
     JList(<<>>),
     JList(<<JStr(<<"a">>), JNull>>),
     JList(<<JNum>>),
     JNull,
     JNum}

\* the JSON objects the service may answer
RecordShapes ==
    {JObj(keys,
          IF "dish_name" \in keys THEN d ELSE JNull,
          IF "ingredients" \in keys THEN i ELSE JNull) :
        keys \in SUBSET {"dish_name", "ingredients"},
        d \in DishShapes, i \in IngredientShapes}

ResponseShapes ==
    {RespRaise, RespMalformed}
    \cup {RespJson(rec) : rec \in RecordShapes}
    \cup {RespJson(JList(<<rec>>)) : rec \in RecordShapes}
    \cup {RespJson(j) : j \in {JList(<<>>), JList(<<JStr(<<"X">>)>>), JList(<<JNull>>),
                               JList(<<JList(<<>>)>>), JStr(<<"X">>), JNull, JNum}}

EnvShape ==
    [playlists |-> {<<"v1">>},
     descriptions |-> {<<"d">>},
     captions |-> BOOLEAN,
     comments |-> BOOLEAN,
     responses |-> ResponseShapes]

NextShape == Analyze(1, EnvShape)

SpecShape == InitAnalyze /\ [][NextShape]_vars

(***************************************************************************)
(* The service as a whole: overlapping runs whose workers write the        *)
(* completion summary key by key under status_lock, a status request       *)
(* (get_status) and a recommendation request.                              *)
(***************************************************************************)
\* the dict get_status uses for a session that has no entry
DefaultStatus ==
    [current |-> 0, total |-> 0, percentage |-> 0, status |-> "ready",
     video_title |-> <<>>, completed |-> <<FALSE>>]

\* the session ids a status request may name: those of the runs, and one
\* that no run has
SessionIds == Runs \cup {NumRuns + 1}

\* with status_lock: status = processing_status.get(session_id, {...}).
\* status is the entry itself, not a copy of it.
GetStatusLookup(sid) ==
    /\ poll.pc = "idle"
    /\ lock = 0
    /\ poll' = [pc |-> "fetched", session_id |-> sid,
                status |-> <<IF sid \in DOMAIN processing_status
                             THEN processing_status[sid] ELSE DefaultStatus>>,
                body |-> <<>>, writer |-> 0]
    /\ UNCHANGED <<store, processing_status, pc, video_ids, playlist, idx, video_info,
                   data_dict, response, analysis, results, calls, existed, faults,
                   query, reply, lock>>

\* the dict the request holds is still the entry of the map: update_status
\* has not replaced it since the lookup
HoldsEntry ==
    /\ poll.session_id \in DOMAIN processing_status
    /\ "timestamp" \in DOMAIN poll.status[1]
    /\ processing_status[poll.session_id].timestamp = poll.status[1].timestamp

\* return jsonify(status), after status_lock was released: the body is what
\* the dict holds at that moment.  writer is the run whose worker is inside
\* its completion update of that dict, or 0.
GetStatusRespond ==
    /\ poll.pc = "fetched"
    /\ poll' = [poll EXCEPT
           !.pc = "replied",
           !.body = <<IF HoldsEntry THEN processing_status[poll.session_id]
                      ELSE poll.status[1]>>,
           !.writer = IF HoldsEntry /\ lock = poll.session_id THEN lock ELSE 0]
    /\ UNCHANGED <<store, processing_status, pc, video_ids, playlist, idx, video_info,
                   data_dict, response, analysis, results, calls, existed, faults,
                   query, reply, lock>>

\* process_videos after the loop: success_count, then with status_lock
FinishLock(r) ==
    /\ pc[r] = "loop"
    /\ idx[r] = Total(r)
    /\ lock = 0
    /\ lock' = r
    /\ pc' = [pc EXCEPT ![r] = "set_completed"]
    /\ UNCHANGED <<store, processing_status, video_ids, playlist, idx, video_info,
                   data_dict, response, analysis, results, calls, existed, faults,
                   query, reply, poll>>

\* processing_status[session_id]['completed'] = True
FinishCompleted(r) ==
    /\ pc[r] = "set_completed"
    /\ processing_status' = [processing_status EXCEPT ![r].completed = <<TRUE>>]
    /\ pc' = [pc EXCEPT ![r] = "set_success_count"]
    /\ UNCHANGED <<store, video_ids, playlist, idx, video_info, data_dict, response,
                   analysis, results, calls, existed, faults, query, reply, lock, poll>>

\* processing_status[session_id]['success_count'] = success_count
FinishSuccessCount(r) ==
    /\ pc[r] = "set_success_count"
    /\ processing_status' =
           [processing_status EXCEPT ![r].success_count = <<CountSuccess(results[r])>>]
    /\ pc' = [pc EXCEPT ![r] = "set_total"]
    /\ UNCHANGED <<store, video_ids, playlist, idx, video_info, data_dict, response,
                   analysis, results, calls, existed, faults, query, reply, lock, poll>>

\* processing_status[session_id]['total'] = len(video_ids), and the lock is
\* released
FinishTotal(r) ==
    /\ pc[r] = "set_total"
    /\ processing_status' = [processing_status EXCEPT ![r].total = Total(r)]
    /\ lock' = 0
    /\ pc' = [pc EXCEPT ![r] = "done"]
    /\ UNCHANGED <<store, video_ids, playlist, idx, video_info, data_dict, response,
                   analysis, results, calls, existed, faults, query, reply, poll>>

\* overlapping runs over the same item
EnvService ==
    [playlists |-> {<<"v1">>},
     descriptions |-> {<<"d">>},
     captions |-> {FALSE},
     comments |-> {FALSE},
     responses |-> {ValidObject}]

ServiceQueries == {<<"a">>}

NextService ==
    \/ \E r \in Runs :
          \/ ItemStep(r, EnvService)
          \/ FinishLock(r)
          \/ FinishCompleted(r)
          \/ FinishSuccessCount(r)
          \/ FinishTotal(r)
    \/ \E sid \in SessionIds : GetStatusLookup(sid)
    \/ GetStatusRespond
    \/ Request(ServiceQueries)

\* the table holds the row of a video an earlier run has processed
InitService ==
    /\ store = <<RowFor("v2", <<"a", ",", "b">>)>>
    /\ processing_status = <<>>
    /\ pc = [r \in Runs |-> "idle"]
    /\ video_ids = [r \in Runs |-> <<>>]
    /\ playlist = [r \in Runs |-> <<>>]
    /\ idx = [r \in Runs |-> 0]
    /\ video_info = [r \in Runs |-> NoInfo]
    /\ data_dict = [r \in Runs |-> {}]
    /\ response = [r \in Runs |-> RespRaise]
    /\ analysis = [r \in Runs |-> NoAnalysis]
    /\ results = [r \in Runs |-> <<>>]
    /\ calls = [r \in Runs |-> {}]
    /\ existed = [r \in Runs |-> <<>>]
    /\ faults = 0
    /\ query = <<>>
    /\ reply = NoReply
    /\ lock = 0
    /\ poll = NoPoll

SpecService == InitService /\ [][NextService]_vars

(***************************************************************************)
(* Properties                                                              *)
(***************************************************************************)
RowsOf(v) == {i \in 1..Len(store) : store[i].video_id = v}

\* the calls of process_single_video that fetch, infer or insert
WorkKinds == {"meta", "captions", "comments", "inference", "insert"}

\* the items of all runs that have returned an outcome
Returned == UNION {{<<r, k>> : k \in 1..Len(results[r])} : r \in Runs}

\* C1: idempotency.  Whenever process_single_video is called for an id whose
\* row is in the store (a first call for it ended in success), the call
\* makes no metadata, caption, comment, inference or insert call, the
\* outcome it returns is skipped, and the store holds exactly one row for
\* the id.  (A call that raises because the store fails returns nothing;
\* see C3.)
C1_Idempotent ==
    \A r \in Runs : \A k \in 1..Len(existed[r]) :
        existed[r][k] =>
            /\ \A kind \in WorkKinds : <<k, kind>> \notin calls[r]
            /\ k <= Len(results[r]) => results[r][k].status = "skipped"
            /\ Cardinality(RowsOf(video_ids[r][k])) = 1

\* a later call for a stored id has returned skipped, once in the run that
\* inserted the row and once in another run
C1_Witness ==
    /\ \E r \in Runs : \E k \in 1..Len(results[r]) : \E j \in 1..(k - 1) :
          /\ existed[r][k]
          /\ results[r][k].status = "skipped"
          /\ results[r][j] = Outcome("success", video_ids[r][k])
    /\ \E r \in Runs : \E k \in 1..Len(results[r]) :
          /\ existed[r][k]
          /\ results[r][k].status = "skipped"
          /\ \A j \in 1..Len(results[r]) : results[r][j].status # "success"

\* two different calls that both passed the pre-check for the same id and
\* both attempted the INSERT
Raced(a, b) ==
    /\ a # b
    /\ video_ids[a[1]][a[2]] = video_ids[b[1]][b[2]]
    /\ ~existed[a[1]][a[2]] /\ ~existed[b[1]][b[2]]
    /\ <<a[2], "insert">> \in calls[a[1]] /\ <<b[2], "insert">> \in calls[b[1]]

\* C2: under any interleaving of overlapping runs the store holds at most
\* one row per id, a row for every call that returned success; and when two
\* calls both passed the pre-check for the same id and both executed the
\* INSERT (no failure of the store injected), the id has one row, exactly
\* one of the calls that raced for it returned success and the others
\* returned error.
C2_OneRowPerId ==
    /\ \A v \in VideoIds :
          /\ Cardinality(RowsOf(v)) <= 1
          /\ Cardinality(RowsOf(v)) =
                Cardinality({a \in Returned :
                                results[a[1]][a[2]] = Outcome("success", v)})
    /\ \A a \in Returned : \A b \in Returned :
          (Raced(a, b) /\ faults = 0) =>
              /\ {results[a[1]][a[2]].status, results[b[1]][b[2]].status}
                     \subseteq {"success", "error"}
              /\ Cardinality(RowsOf(video_ids[a[1]][a[2]])) = 1
              /\ Cardinality({c \in Returned :
                                 /\ c = a \/ Raced(a, c)
                                 /\ results[c[1]][c[2]].status = "success"}) = 1

\* two runs raced on the same id: one INSERT committed, the other was rejected
C2_Witness ==
    \E a \in Returned : \E b \in Returned :
        /\ Raced(a, b) /\ faults = 0 /\ a[1] # b[1]
        /\ results[a[1]][a[2]].status = "success"
        /\ results[b[1]][b[2]].status = "error"
        /\ Cardinality(RowsOf(video_ids[a[1]][a[2]])) = 1

\* C3: a single item's failure never halts the batch: whatever fails for an
\* item, the worker does not end before it has gone through its list.
C3_NeverHalts == \A r \in Runs : pc[r] # "crashed"

\* the answer of the service parsed as JSON
Parsed(r) == response[r].kind = "json"

\* the record analyze_with_gemini reads the fields of: the answer, or the
\* first element of a list answer
RecordIn(j) == IF j.t = "list" THEN j.l[1] ELSE j

\* the answer holds a record: an object, or a non-empty list that starts with one
HoldsRecord(r) ==
    /\ Parsed(r)
    /\ response[r].data.t \in {"obj", "list"}
    /\ response[r].data.t = "list" => response[r].data.l # <<>>
    /\ RecordIn(response[r].data).t = "obj"

\* a string, or a list of strings
TextLike(j) ==
    \/ j.t = "str"
    \/ j.t = "list" /\ \A i \in 1..Len(j.l) : j.l[i].t = "str"

\* the record's ingredients can be read: absent, a string or a list of strings
Readable(rec) == "ingredients" \in rec.keys => TextLike(rec.ingredients)

\* the labels of the slots of S in the order captions, description, comments
ExpectedLabels(S) ==
    (IF "transcript" \in S THEN <<"captions">> ELSE <<>>)
    \o (IF "description" \in S THEN <<"description">> ELSE <<>>)
    \o (IF "comments" \in S THEN <<"comments">> ELSE <<>>)

\* the labels written with a comma between them, or the sentinel
Listed(labels) ==
    IF labels = <<>> THEN <<"none">>
    ELSE [i \in 1..(2 * Len(labels) - 1) |->
             IF i % 2 = 1 THEN labels[(i + 1) \div 2] ELSE ","]

\* run r commits its INSERT in this step
Inserts(r) ==
    /\ pc[r] = "insert"
    /\ pc'[r] = "loop"
    /\ Len(store') = Len(store) + 1

\* C4 as claimed: whatever the inference service answers, the row persisted
\* for an item lists in data_sources exactly the available slots, in the
\* order captions, description, comments, or holds the sentinel when none
\* is available.
C4_SourcesAlwaysListed ==
    [][\A r \in Runs :
          Inserts(r) =>
              store'[Len(store')].data_sources = Listed(ExpectedLabels(data_dict[r]))]_vars

\* C4 as amended: the row lists exactly the available slots when the service
\* answers an object, or a non-empty list that starts with one, whose
\* ingredients are absent, a string or a list of strings; when the call
\* raises, the text is not JSON, or the answer is an empty list or holds no
\* such object, the row holds the sentinel.
C4_SourcesListedOnRecord ==
    [][\A r \in Runs :
          Inserts(r) =>
              store'[Len(store')].data_sources =
                  IF HoldsRecord(r) /\ Readable(RecordIn(response[r].data))
                  THEN Listed(ExpectedLabels(data_dict[r]))
                  ELSE <<"none">>]_vars

\* rows for all three slots after a valid answer, and a sentinel row for an
\* item that had sources but whose answer was not usable
C4_Witness ==
    \E i \in 1..Len(store) : \E j \in 1..Len(store) :
        /\ store[i].data_sources =
               <<"captions", ",", "description", ",", "comments">>
        /\ store[j].data_sources = <<"none">>
        /\ store[j].description # <<>>

\* the number of ids of the playlist of run r that the run may process
Capped(r) == Min(Len(playlist[r]), FREE_TIER_LIMIT)

\* C5: a run processes the first min(n, 10) ids of its playlist, each once,
\* in playlist order and one at a time: the outcomes returned so far are
\* those of the first ids, in order; an item is started only when all items
\* before it have returned; no call is made for an item beyond the cap; and
\* a completed run has returned an outcome for each of the min(n, 10) ids.
C5_CapAndOrder ==
    /\ \A r \in Runs :
          /\ idx[r] <= Capped(r)
          /\ Len(results[r]) \in {idx[r] - 1, idx[r]}
          /\ \A k \in 1..Len(results[r]) : results[r][k].video_id = playlist[r][k]
          /\ \A c \in calls[r] : c[1] \in 1..Capped(r)
          /\ \A k \in 1..idx[r] : <<k, "exists">> \in calls[r]
          /\ pc[r] = "done" => Len(results[r]) = Capped(r)

\* a playlist longer than the cap has been processed to completion
C5_Witness ==
    \E r \in Runs :
        /\ pc[r] = "done"
        /\ Len(playlist[r]) > FREE_TIER_LIMIT
        /\ Len(results[r]) = FREE_TIER_LIMIT

\* the request has been answered
Answered == reply # NoReply

\* the text holds nothing but commas and whitespace
Blank(text) == \A i \in 1..Len(text) : text[i] \in {",", " "}

\* C6: an input whose set of trimmed non-empty tokens is empty (the empty
\* text, or commas and whitespace only) is answered with the "please enter
\* ingredients" message, and no query is issued to the store.
C6_EmptyQueryRejected ==
    (Answered /\ Blank(query)) =>
        (reply.outcome = "enter_ingredients" /\ ~reply.queried)

\* the trimmed non-empty tokens between the commas of text: a token runs
\* from the first to the last non-blank character of a stretch that starts
\* at the beginning or behind a comma and ends at the end or before a comma
TokensOf(text) ==
    LET n == Len(text)
        starts == {i \in 1..(n + 1) : i = 1 \/ text[i - 1] = ","}
        ends == {j \in 0..n : j = n \/ text[j + 1] = ","}
        EndOf(i) == CHOOSE j \in ends :
                        j >= i - 1 /\ \A j2 \in ends : j2 >= i - 1 => j <= j2
        Inner(i) == {k \in i..EndOf(i) : text[k] # " "}
    IN  {SubSeq(text, CHOOSE k \in Inner(i) : \A m \in Inner(i) : k <= m,
                      CHOOSE k \in Inner(i) : \A m \in Inner(i) : m <= k) :
            i \in {st \in starts : Inner(st) # {}}}

\* the row of the store a returned recipe was made from
RowOf(rec) == store[CHOOSE i \in 1..Len(store) : store[i].url = rec.url]

ScanPos(rec) == CHOOSE i \in 1..Len(store) : store[i].url = rec.url

\* C7 as claimed: of two returned recipes the one with the greater
\* match_rate = 100 * |matched| / |R| comes first, and recipes with equal
\* match_rate keep the order of the store scan.
C7_RankedByExactRate ==
    \A i \in 1..Len(reply.recipes) : \A j \in (i + 1)..Len(reply.recipes) :
        LET a == reply.recipes[i]
            b == reply.recipes[j]
        IN  /\ a.rate_num * b.rate_den >= b.rate_num * a.rate_den
            /\ a.rate_num * b.rate_den = b.rate_num * a.rate_den
                  => ScanPos(a) < ScanPos(b)

\* C7 as amended: of two returned recipes the one whose match_rate as
\* formatted to one decimal place is greater comes first, and recipes whose
\* formatted match_rate is equal keep the order of the store scan.
C7_RankedByFormattedRate ==
    \A i \in 1..Len(reply.recipes) : \A j \in (i + 1)..Len(reply.recipes) :
        LET a == reply.recipes[i]
            b == reply.recipes[j]
        IN  /\ a.match_rate >= b.match_rate
            /\ a.match_rate = b.match_rate => ScanPos(a) < ScanPos(b)

\* R1 {a,b,c} is scanned before R2 {a,b}; for the user set {a,b} both are
\* returned, R2 (100.0) before R1 (66.7)
C7_Witness ==
    /\ Len(store) = 2
    /\ store[1].ingredients = <<"a", ",", "b", ",", "c">>
    /\ store[2].ingredients = <<"a", ",", "b">>
    /\ query = <<"a", ",", "b">>
    /\ Len(reply.recipes) = 2
    /\ reply.recipes[1].url = store[2].url /\ reply.recipes[1].match_rate = 1000
    /\ reply.recipes[2].url = store[1].url /\ reply.recipes[2].match_rate = 667

\* C8: for every returned recipe, with R the token set of its row and U the
\* user's token set: matched = U \cap R and missing = R \ U (disjoint, with
\* union R); match_rate is 100 * |matched| / |R|, and 0 when R is empty, so
\* it lies between 0 and 100; the match_rate returned is that number to one
\* decimal place.
C8_MatchComputation ==
    \A i \in 1..Len(reply.recipes) :
        LET rec == reply.recipes[i]
            R == TokensOf(RowOf(rec).ingredients)
            U == TokensOf(query)
        IN  /\ rec.matched = U \cap R
            /\ rec.missing = R \ U
            /\ rec.matched \cap rec.missing = {}
            /\ rec.matched \cup rec.missing = R
            /\ rec.all_ingredients = R
            /\ R # {} => rec.rate_num * Cardinality(R)
                             = Cardinality(rec.matched) * rec.rate_den
            /\ R = {} => rec.rate_num = 0
            /\ 0 <= rec.rate_num /\ rec.rate_num <= rec.rate_den
            /\ 0 <= rec.match_rate /\ rec.match_rate <= 1000
            /\ 2 * rec.match_rate * rec.rate_den <= 2000 * rec.rate_num + rec.rate_den
            /\ 2 * rec.match_rate * rec.rate_den >= 2000 * rec.rate_num - rec.rate_den

\* a recipe returned with tokens matched and tokens missing, and a recipe
\* returned whose token set is empty
C8_Witness ==
    /\ \E i \in 1..Len(reply.recipes) :
          /\ reply.recipes[i].matched # {}
          /\ reply.recipes[i].missing # {}
    /\ \E i \in 1..Len(reply.recipes) :
          /\ reply.recipes[i].all_ingredients = {}
          /\ reply.recipes[i].match_rate = 0

\* tok occurs in str
Substring(tok, str) ==
    \E i \in 0..(Len(str) - Len(tok)) : SubSeq(str, i + 1, i + Len(tok)) = tok

Candidate(row) == \E tok \in TokensOf(query) : Substring(tok, row.ingredients)

\* C9: for a non-empty user token set, a stored recipe is in the result if
\* and only if one of the tokens occurs as a substring of its ingredients
\* (so a recipe with empty ingredients is never returned); when no recipe
\* qualifies the outcome is the "no matches" message without a recipe list.
C9_SubstringCandidates ==
    (Answered /\ TokensOf(query) # {}) =>
        /\ \A k \in 1..Len(store) :
              Candidate(store[k])
                  <=> \E i \in 1..Len(reply.recipes) : reply.recipes[i].url = store[k].url
        /\ \A i \in 1..Len(reply.recipes) : RowOf(reply.recipes[i]).ingredients # <<>>
        /\ (\A k \in 1..Len(store) : ~Candidate(store[k]))
              => (reply.outcome = "no_matches" /\ reply.recipes = <<>>)

\* the text of an ingredients value: a string, or a list of strings joined
\* with commas
RECURSIVE TextOf(_)
TextOf(j) ==
    IF j.t = "str" THEN j.s
    ELSE IF j.l = <<>> THEN <<>>
    ELSE IF Len(j.l) = 1 THEN j.l[1].s
    ELSE j.l[1].s \o <<",">> \o TextOf(JList(Tail(j.l)))

NoSpaces(s) == SelectSeq(s, LAMBDA c : c # " ")

\* the non-empty comma-separated tokens of s, in order
TokenSeq(s) == SelectSeq(Split(s), LAMBDA t : t # <<>>)

\* the non-blank tokens of s with their whitespace removed, in order
CleanTokens(s) ==
    SelectSeq([k \in 1..Len(Split(s)) |-> NoSpaces(Split(s)[k])], LAMBDA t : t # <<>>)

\* C10: the ingredients analyze_with_gemini returns for an ingredients value
\* given as a string or as a list of strings hold no whitespace, no two
\* adjacent commas and no leading or trailing comma, and their tokens are the
\* non-blank tokens of the input with the whitespace removed, in the
\* original order, repeats kept.
C10_Normalized ==
    pc[1] = "insert" =>
        LET out == analysis[1].ingredients
            text == TextOf(response[1].data.ingredients)
        IN  /\ \A i \in 1..Len(out) : out[i] # " "
            /\ \A i \in 1..(Len(out) - 1) : ~(out[i] = "," /\ out[i + 1] = ",")
            /\ out # <<>> => (out[1] # "," /\ out[Len(out)] # ",")
            /\ \A k \in 1..Len(Split(out)) : out # <<>> => Split(out)[k] # <<>>
            /\ TokenSeq(out) = CleanTokens(text)

\* "a, b ,, a" has been normalized to "a,b,a"
C10_Witness ==
    /\ pc[1] = "insert"
    /\ response[1].data.ingredients
           = JStr(<<"a", ",", " ", "b", " ", ",", ",", " ", "a">>)
    /\ analysis[1].ingredients = <<"a", ",", "b", ",", "a">>

\* C11: with at least one source available, an object answer is used as the
\* record and a non-empty list answer is resolved to its first element:
\* dish_name is the record's, or the title when the record has none;
\* ingredients are the record's (a list joined with commas) cleaned up, or
\* "" when the record has none; [{"dish_name":"X","ingredients":["a","b"]}]
\* yields X and "a,b"; an empty list answer yields (title, "", []).
C11_ShapeResolution ==
    pc[1] = "insert" =>
        LET out == analysis[1]
            title == video_info[1].title
        IN  /\ (HoldsRecord(1) /\ Readable(RecordIn(response[1].data))) =>
                  LET rec == RecordIn(response[1].data)
                  IN  /\ out.dish_name = IF "dish_name" \in rec.keys
                                          THEN rec.dish_name ELSE JStr(title)
                      /\ "ingredients" \notin rec.keys => out.ingredients = <<>>
                      /\ "ingredients" \in rec.keys =>
                            TokenSeq(out.ingredients) = CleanTokens(TextOf(rec.ingredients))
                      /\ out.sources # <<>>
            /\ response[1] = RespJson(JList(<<JObj({"dish_name", "ingredients"},
                                  JStr(<<"X">>),
                                  JList(<<JStr(<<"a">>), JStr(<<"b">>)>>))>>)) =>
                  /\ out.dish_name = JStr(<<"X">>)
                  /\ out.ingredients = <<"a", ",", "b">>
            /\ response[1] = RespJson(JList(<<>>)) =>
                  /\ out.dish_name = JStr(title)
                  /\ out.ingredients = <<>>
                  /\ out.sources = <<>>

\* the list-wrapped example has been resolved to X and "a,b"
C11_Witness ==
    /\ pc[1] = "insert"
    /\ response[1] = RespJson(JList(<<JObj({"dish_name", "ingredients"}, JStr(<<"X">>),
                                        JList(<<JStr(<<"a">>), JStr(<<"b">>)>>))>>))
    /\ analysis[1].dish_name = JStr(<<"X">>)
    /\ analysis[1].ingredients = <<"a", ",", "b">>

\* the characters a text of the model is made of
Chars == {"a", "b", "c", "A", ",", " ", "%", "_", "X", "T", "u", "d", "v1", "v2"}

IsText(s) == DOMAIN s = 1..Len(s) /\ \A i \in 1..Len(s) : s[i] \in Chars

\* the call failed, the text was not JSON, the answer holds no record, or the
\* record's ingredients are neither a string nor a list of strings
FailureCase(r) == ~(HoldsRecord(r) /\ Readable(RecordIn(response[r].data)))

\* C12: whatever the inference service does, analyze_with_gemini returns a
\* triple whose ingredients are a string; when the call raises, the text is
\* not JSON, the first element of a list answer is not an object, or the
\* ingredients value is neither a string nor a list of strings, the triple
\* is exactly (title, "", []).
C12_NeverRaises ==
    pc[1] = "insert" =>
        /\ DOMAIN analysis[1] = {"dish_name", "ingredients", "sources"}
        /\ IsText(analysis[1].ingredients)
        /\ FailureCase(1) =>
              /\ analysis[1].dish_name = JStr(video_info[1].title)
              /\ analysis[1].ingredients = <<>>
              /\ analysis[1].sources = <<>>

\* an ingredients list that holds a null has degraded to (title, "", [])
C12_Witness ==
    /\ pc[1] = "insert"
    /\ Parsed(1) /\ response[1].data.t = "obj"
    /\ response[1].data.ingredients = JList(<<JStr(<<"a">>), JNull>>)
    /\ "ingredients" \in response[1].data.keys
    /\ analysis[1] = [dish_name |-> JStr(video_info[1].title), ingredients |-> <<>>,
                       sources |-> <<>>]

\* the step returns an outcome for an item of run r
Returns(r) == Len(results'[r]) = Len(results[r]) + 1

\* the outcome a step that satisfies Returns(r) has returned
Returning(r) == results'[r][Len(results'[r])]

\* C13: a duplicate item is reported as skipped, not as an error: when a
\* call returns from its pre-check or from its own insert attempt (no failure
\* of the store injected) and the row of its item id is in the store at that
\* moment, committed earlier or by another run in between, the outcome is
\* skipped.
C13_DuplicateSkipped ==
    [][\A r \in Runs :
          (/\ Returns(r)
           /\ pc[r] \in {"loop", "insert"}
           /\ faults' = faults
           /\ RowsOf(Returning(r).video_id) # {})
          => Returning(r).status = "skipped"]_vars

\* C14: when the item is not in the store and get_video_info returns absent,
\* the outcome of the item is error, no caption fetch, comment fetch,
\* inference call or insert is made for it, and the store is left as it was.
C14_MetadataAbsent ==
    [][\A r \in Runs : \A k \in 1..Len(video_ids[r]) :
          /\ <<k, "meta_absent">> \in calls[r] =>
                /\ ~existed[r][k]
                /\ k <= Len(results[r])
                /\ results[r][k] = Outcome("error", video_ids[r][k])
                /\ \A kind \in {"captions", "comments", "inference", "insert"} :
                      <<k, kind>> \notin calls[r]
          /\ (<<k, "meta_absent">> \in calls'[r] /\ <<k, "meta_absent">> \notin calls[r]) =>
                /\ store' = store
                /\ Returns(r)
                /\ Returning(r) = Outcome("error", video_ids[r][k])]_vars

\* a run has gone through its list after the metadata of its first item was
\* absent
C14_Witness ==
    \E r \in Runs :
        /\ pc[r] = "done"
        /\ <<1, "meta_absent">> \in calls[r]
        /\ results[r][1].status = "error"
        /\ Len(results[r]) = Len(video_ids[r])

\* the status label that reports a terminal outcome
TerminalLabel(status) ==
    CASE status = "skipped" -> "already"
      [] status = "success" -> "done"
      [] status = "error" -> "error"

\* C15: every item's terminal outcome is reported to the status map: once
\* process_single_video has returned skipped, success or error for item k of
\* a run, and until the next item is started, the entry of the run has
\* current = k and the status label of that outcome.
C15_TerminalStatusReported ==
    \A r \in Runs :
        (pc[r] \in {"loop", "done"} /\ results[r] # <<>>) =>
            LET k == Len(results[r])
            IN  /\ processing_status[r].current = k
                /\ processing_status[r].status = TerminalLabel(results[r][k].status)

\* a non-empty list of source labels joined with commas
CommaJoined(s) ==
    /\ Len(s) % 2 = 1
    /\ \A i \in 1..Len(s) :
          IF i % 2 = 1 THEN s[i] \in {"captions", "description", "comments"}
          ELSE s[i] = ","

\* C16: a row with empty ingredients is still persisted: an insert that does
\* not fail appends the row and returns success whatever the ingredients are;
\* and every row of the store has ingredients that are a string, a dish_name
\* that is not null, and data_sources that are the sentinel or a non-empty
\* comma-joined list.
C16_RowsWellFormed ==
    /\ \A i \in 1..Len(store) :
          /\ IsText(store[i].ingredients)
          /\ store[i].dish_name.t # "null"
          /\ store[i].data_sources = <<"none">> \/ CommaJoined(store[i].data_sources)
    /\ \A r \in Runs : \A k \in 1..Len(results[r]) :
          (/\ <<k, "insert">> \in calls[r]
           /\ faults = 0
           /\ Cardinality(RowsOf(video_ids[r][k])) = 1
           /\ \A j \in 1..(k - 1) : video_ids[r][j] # video_ids[r][k])
          => results[r][k].status = "success"

\* the row of an item for which nothing could be extracted
BareRow(r) ==
    [video_id |-> CurrentId(r), title |-> video_info[r].title,
     description |-> video_info[r].description, ingredients |-> <<>>,
     dish_name |-> JStr(video_info[r].title), url |-> video_info[r].url,
     data_sources |-> <<"none">>]

\* C17: when captions, description and comments are all absent or empty for
\* an item with metadata, analyze_with_gemini returns (title, "", []) and no
\* request is sent to the inference service; the INSERT, unless the store
\* fails or rejects it, appends the row with dish_name = title, ingredients
\* "" and the sentinel as data_sources, and the outcome is success.
C17_AllAbsent ==
    [][\A r \in Runs :
          (pc[r] = "insert" /\ data_dict[r] = {}) =>
              /\ analysis[r] = [dish_name |-> JStr(video_info[r].title),
                                ingredients |-> <<>>, sources |-> <<>>]
              /\ <<idx[r], "inference">> \notin calls'[r]
              /\ Returns(r) =>
                    \/ /\ Returning(r) = Outcome("success", CurrentId(r))
                       /\ store' = Append(store, BareRow(r))
                    \/ /\ Returning(r) = Outcome("error", CurrentId(r))
                       /\ store' = store
                       /\ faults' > faults \/ RowsOf(CurrentId(r)) # {}]_vars

\* an item without any source has been persisted with the sentinel, and no
\* request was sent to the inference service for it
C17_Witness ==
    /\ Len(results[1]) >= 1
    /\ results[1][1].status = "success"
    /\ <<1, "inference">> \notin calls[1]
    /\ \E i \in 1..Len(store) :
          /\ store[i].video_id = video_ids[1][1]
          /\ store[i].description = <<>>
          /\ store[i].ingredients = <<>>
          /\ store[i].dish_name = JStr(store[i].title)
          /\ store[i].data_sources = <<"none">>

\* the positions of a worker inside the with status_lock block of its
\* completion update
InCompletionUpdate(r) == pc[r] \in {"set_completed", "set_success_count", "set_total"}

\* C18: lock discipline of the status map: a worker is inside its completion
\* update exactly while it holds status_lock, the lock is held at no other
\* position of a worker (so never across a call to the store, the video
\* service, the inference service or sleep), and a status request never
\* builds its response from an entry while a worker is inside its update of
\* that entry: a response that shows completed also shows success_count.
C18_LockDiscipline ==
    /\ \A r \in Runs : InCompletionUpdate(r) <=> lock = r
    /\ lock \in Runs \cup {0}
    /\ poll.pc = "replied" =>
          /\ poll.writer = 0
          /\ poll.body[1].completed = <<TRUE>> => poll.body[1].success_count # <<>>

\* the entry of session sid in the map ps, if there is one
Entry(ps, sid) == IF sid \in DOMAIN ps THEN <<ps[sid]>> ELSE <<>>

\* C19: run independence on the status map: a step changes the entry of run
\* B only if it is a step of B's start request or of B's own worker; no step
\* of another run and no status request changes it.
C19_RunIndependence ==
    [][\A B \in Runs :
          Entry(processing_status', B) # Entry(processing_status, B)
              => (pc'[B] # pc[B] \/ calls'[B] # calls[B])]_vars

\* run 1 has written its completion summary while the entry of run 2 still
\* shows an item in progress, and a status request has been answered
C19_Witness ==
    /\ pc[1] = "done"
    /\ processing_status[1].completed = <<TRUE>>
    /\ pc[2] = "insert"
    /\ processing_status[2].status = "analyzing"
    /\ processing_status[2].completed = <<>>
    /\ poll.pc = "replied"

\* C20: the store is insert-only: every step of a run, of a status request
\* or of a recommendation request leaves the rows of the store as they are,
\* with all their fields, or appends one row.
C20_InsertOnly ==
    [][/\ Len(store') >= Len(store)
       /\ Len(store') <= Len(store) + 1
       /\ SubSeq(store', 1, Len(store)) = store]_vars

\* the row of an earlier run and the row of v1 are in the store after another
\* run failed on v1, a recommendation was answered and a status request was
\* answered
C20_Witness ==
    /\ Len(store) = 2
    /\ store[1] = RowFor("v2", <<"a", ",", "b">>)
    /\ store[2].video_id = "v1"
    /\ \E r \in Runs : results[r] = <<Outcome("error", "v1")>>
    /\ \E r \in Runs : results[r] = <<Outcome("success", "v1")>>
    /\ reply.outcome = "recipes"
    /\ poll.pc = "replied"

\* the number of outcomes of res that are success
Successes(res) == Cardinality({k \in 1..Len(res) : res[k].status = "success"})

\* what an entry e that shows completed must show for a run with item list
\* ids and outcomes res
SummaryOf(e, ids, res) ==
    e.completed = <<TRUE>> =>
        /\ Len(res) = Len(ids)
        /\ e.success_count = <<Successes(res)>>
        /\ e.total = Len(res)

\* C21: completion summary of a run: completed is absent from the entry of a
\* run until every item of its capped list has returned a terminal outcome;
\* whenever the entry shows completed, to a reader that holds status_lock or
\* in the body of a status response, it shows a success_count equal to the
\* number of the run's items whose outcome was success and a total equal to
\* the number of items processed; the run appends a row exactly in its steps
\* that return success; and once the summary is written no step changes the
\* entry.
C21_CompletionSummary ==
    [][\A r \in Runs :
          /\ (r \in DOMAIN processing_status' /\ lock' # r) =>
                SummaryOf(processing_status'[r], video_ids'[r], results'[r])
          /\ (poll'.pc = "replied" /\ poll'.session_id = r) =>
                SummaryOf(poll'.body[1], video_ids'[r], results'[r])
          /\ (/\ r \in DOMAIN processing_status
              /\ processing_status[r].completed = <<TRUE>>
              /\ lock # r) =>
                Entry(processing_status', r) = Entry(processing_status, r)
          /\ calls'[r] # calls[r] =>
                (Len(store') = Len(store) + 1
                    <=> (Returns(r) /\ Returning(r).status = "success"))]_vars

\* q is the floor of 100 * current / total
IsFloorPercent(q, current, total) ==
    /\ q * total <= 100 * current
    /\ 100 * current < (q + 1) * total

\* C22: status entry invariant: every entry of the status map has
\* 0 <= current <= total, a percentage that is floor(100 * current / total)
\* when total > 0 and 0 when total = 0 (a run started on an empty list
\* included), hence between 0 and 100; and from one write of a run's entry
\* to the next its current never decreases.
C22_StatusEntry ==
    [][\A r \in Runs :
          r \in DOMAIN processing_status' =>
              LET e == processing_status'[r]
              IN  /\ 0 <= e.current /\ e.current <= e.total
                  /\ IF e.total > 0
                     THEN IsFloorPercent(e.percentage, e.current, e.total)
                     ELSE e.percentage = 0
                  /\ 0 <= e.percentage /\ e.percentage <= 100
                  /\ r \in DOMAIN processing_status =>
                        e.current >= processing_status[r].current]_vars

\* the fifth item of a list of nine is in progress: 55 percent
C22_Witness ==
    /\ 1 \in DOMAIN processing_status
    /\ processing_status[1].current = 5
    /\ processing_status[1].total = FREE_TIER_LIMIT - 1
    /\ processing_status[1].percentage = 55

====
